---------------------------- MODULE Spec2Model ----------------------------
(***************************************************************************)
(* The UBX frame decoder of src/sensors/gps.rs (UbxParser), the NAV-PVT    *)
(* payload decode, the two pre-built configuration commands, and the byte  *)
(* stream the receive loop of main.rs hands to parse_byte.                 *)
(*                                                                         *)
(* The serial line is modelled as a succession of chunks (a frame, a       *)
(* command, line noise): Transmit puts a chunk on the line, and each       *)
(* ParseByte step is one call of UbxParser::parse_byte on the next byte.   *)
(***************************************************************************)
EXTENDS Integers, Sequences, FiniteSets, TLC

(***************************************************************************)
(* Program constants.                                                      *)
(***************************************************************************)
UBX_SYNC_CHAR_1 == 181     \* 0xB5
UBX_SYNC_CHAR_2 == 98      \* 0x62
UBX_CLASS_NAV == 1
UBX_NAV_PVT == 7
PAYLOAD_CAPACITY == 256    \* payload: [u8; 256]
NAV_PVT_MIN_LEN == 84      \* parse_nav_pvt: length < 84 => None

(***************************************************************************)
(* Bounds of the model.                                                    *)
(***************************************************************************)
MaxChunks == 2     \* chunks put on the line in one run of Spec
MaxExtraLen == 1   \* NAV-PVT frames have payload length 84 .. 84+MaxExtraLen
MaxSeed == 1       \* payload fill patterns 0 .. MaxSeed

VARIABLES
    state,                  \* UbxParser.state
    message,                \* UbxParser.message (UbxMessage)
    payload_index,          \* UbxParser.payload_index
    calculated_checksum_a,  \* UbxParser.calculated_checksum_a
    calculated_checksum_b,  \* UbxParser.calculated_checksum_b
    result,                 \* what the last parse_byte call returned: {} is None, {r} is Some(r)
    diag,                   \* TRUE iff the last parse_byte call printed "UBX checksum error"
    chunk,                  \* the chunk now on the serial line
    off,                    \* how many of its bytes rx.read() has delivered
    sent,                   \* chunks put on the line so far
    prev_chunk,             \* the chunk that was on the line before it (<<>> if none)
    frame,                  \* history: the bytes consumed since the decoder was last in WaitingForSync1
    sync_seen,              \* history: some consumed 0xB5 was immediately followed by 0x62
    b5_run,                 \* history: how many 0xB5 bytes end the bytes consumed so far
    pc,                     \* where main is: <<loop, bytes of its array already written>>
    uart_tx                 \* the bytes tx.write() has put on the UART, in order

vars == <<state, message, payload_index, calculated_checksum_a, calculated_checksum_b,
          result, diag, chunk, off, sent, prev_chunk, frame, sync_seen, b5_run,
          pc, uart_tx>>

parser_vars == <<state, message, payload_index, calculated_checksum_a, calculated_checksum_b>>

main_vars == <<pc, uart_tx>>

States == {"WaitingForSync1", "WaitingForSync2", "ReadingClass", "ReadingId",
           "ReadingLength1", "ReadingLength2", "ReadingPayload",
           "ReadingChecksum1", "ReadingChecksum2"}

(***************************************************************************)
(* Little-endian conversions (u16/i32/u32::from_le_bytes).  A u32 can      *)
(* exceed the integer range of the checker, so it is kept as the pair      *)
(* <<low half-word, high half-word>>, which determines it.                 *)
(***************************************************************************)
u16_from_le_bytes(b0, b1) == b0 + 256 * b1

\* A conversion that takes the first byte as the most significant.
i32_from_be_bytes(b0, b1, b2, b3) ==
    b3 + 256 * b2 + 65536 * b1 + 16777216 * (IF b0 >= 128 THEN b0 - 256 ELSE b0)

i32_from_le_bytes(b0, b1, b2, b3) ==
    b0 + 256 * b1 + 65536 * b2 + 16777216 * (IF b3 >= 128 THEN b3 - 256 ELSE b3)

u32_from_le_bytes(b0, b1, b2, b3) == <<b0 + 256 * b1, b2 + 256 * b3>>

\* flags & 0x01
BitAnd1(b) == b % 2

(***************************************************************************)
(* UbxMessage::new and UbxParser::calculate_checksum.                      *)
(***************************************************************************)
UbxMessage_new ==
    [class |-> 0, id |-> 0, length |-> 0,
     payload |-> [i \in 0..(PAYLOAD_CAPACITY - 1) |-> 0],
     checksum_a |-> 0, checksum_b |-> 0]

wrapping_add(x, y) == (x + y) % 256

\* A checksum update that forgets to fold ck_a into ck_b's running sum.
calculate_checksum_no_carry(a, b, byte) ==
    [a |-> wrapping_add(a, byte), b |-> wrapping_add(b, byte)]

\* A checksum update that adds ck_a to ck_b before the byte is added to ck_a.
calculate_checksum_b_first(a, b, byte) ==
    [a |-> wrapping_add(a, byte), b |-> wrapping_add(b, a)]

calculate_checksum(a, b, byte) ==
    LET a2 == wrapping_add(a, byte)
    IN  [a |-> a2, b |-> wrapping_add(b, a2)]


(***************************************************************************)
(* The decode of a NAV-PVT payload and the class/id dispatch.              *)
(***************************************************************************)
\* A validity rule that looks at the fix type only.
has_valid_fix_ignoring_flags(fix_type, flags) == fix_type >= 3

has_valid_fix(fix_type, flags) == fix_type >= 3 /\ BitAnd1(flags) # 0

GpsData(payload) ==
    [valid |-> has_valid_fix(payload[20], payload[21]),
     year |-> u16_from_le_bytes(payload[4], payload[5]),
     month |-> payload[6],
     day |-> payload[7],
     hour |-> payload[8],
     minute |-> payload[9],
     second |-> payload[10],
     nano |-> i32_from_le_bytes(payload[16], payload[17], payload[18], payload[19]),
     latitude |-> i32_from_le_bytes(payload[28], payload[29], payload[30], payload[31]),
     longitude |-> i32_from_le_bytes(payload[24], payload[25], payload[26], payload[27]),
     height_msl |-> i32_from_le_bytes(payload[36], payload[37], payload[38], payload[39]),
     horizontal_accuracy |-> u32_from_le_bytes(payload[40], payload[41], payload[42], payload[43]),
     vertical_accuracy |-> u32_from_le_bytes(payload[44], payload[45], payload[46], payload[47]),
     ground_speed |-> i32_from_le_bytes(payload[60], payload[61], payload[62], payload[63]),
     satellites |-> payload[23]]

\* A minimum-length check that also refuses a payload of exactly 84 bytes.
parse_nav_pvt_min_exclusive(msg) ==
    IF msg.length <= NAV_PVT_MIN_LEN THEN {} ELSE {GpsData(msg.payload)}

\* A decode that returns a record only for a valid fix.
parse_nav_pvt_valid_fix_only(msg) ==
    IF msg.length < NAV_PVT_MIN_LEN \/ ~has_valid_fix(msg.payload[20], msg.payload[21])
    THEN {} ELSE {GpsData(msg.payload)}

\* A decode that does not look at the declared length.
parse_nav_pvt_unchecked_length(msg) == {GpsData(msg.payload)}

\* A minimum-length check that lets a payload of 83 bytes through.
parse_nav_pvt_one_byte_short(msg) ==
    IF msg.length < NAV_PVT_MIN_LEN - 1 THEN {} ELSE {GpsData(msg.payload)}

parse_nav_pvt(msg) ==
    IF msg.length < NAV_PVT_MIN_LEN THEN {} ELSE {GpsData(msg.payload)}

\* A dispatch that recognizes NAV-POSLLH (class 0x01, id 0x02) in place of NAV-PVT.
process_message_nav_posllh(msg) ==
    IF msg.class = UBX_CLASS_NAV /\ msg.id = 2 THEN parse_nav_pvt(msg) ELSE {}

\* A dispatch that looks at the class only.
process_message_class_only(msg) ==
    IF msg.class = UBX_CLASS_NAV THEN parse_nav_pvt(msg) ELSE {}

process_message(msg) ==
    IF msg.class = UBX_CLASS_NAV /\ msg.id = UBX_NAV_PVT THEN parse_nav_pvt(msg) ELSE {}

\* A checksum comparison that looks at the first checksum byte only.
checksum_verified_a_only(ca, cb, ra, rb) == ca = ra

\* A checksum comparison that looks at the second checksum byte only.
checksum_verified_b_only(ca, cb, ra, rb) == cb = rb

\* A checksum comparison satisfied by either checksum byte.
checksum_verified_either(ca, cb, ra, rb) == ca = ra \/ cb = rb

checksum_verified(ca, cb, ra, rb) == ca = ra /\ cb = rb

(***************************************************************************)
(* message.length |= (byte as u16) << 8                                    *)
(***************************************************************************)
RECURSIVE BitOr(_, _)
BitOr(x, y) ==
    IF x = 0 THEN y
    ELSE IF y = 0 THEN x
    ELSE (IF x % 2 = 1 \/ y % 2 = 1 THEN 1 ELSE 0) + 2 * BitOr(x \div 2, y \div 2)

\* The high byte assigned (=) where the code ors it in (|=).
or_shl8_assigned(length, byte) == byte * 256

or_shl8(length, byte) == BitOr(length, byte * 256)

\* The state after the high length byte, accepting one byte more than the buffer holds.
state_after_length_off_by_one(length) ==
    IF length = 0 THEN "ReadingChecksum1"
    ELSE IF length <= PAYLOAD_CAPACITY + 1 THEN "ReadingPayload"
    ELSE "WaitingForSync1"

\* The state after the high length byte, with no upper limit on the length.
state_after_length_unbounded(length) ==
    IF length = 0 THEN "ReadingChecksum1" ELSE "ReadingPayload"

\* The state after the high length byte, entering ReadingPayload for a length of 0 too.
state_after_length_zero_to_payload(length) ==
    IF length <= PAYLOAD_CAPACITY THEN "ReadingPayload" ELSE "WaitingForSync1"

\* The state after the high length byte, refusing a payload that fills the buffer exactly.
state_after_length_capacity_exclusive(length) ==
    IF length = 0 THEN "ReadingChecksum1"
    ELSE IF length < PAYLOAD_CAPACITY THEN "ReadingPayload"
    ELSE "WaitingForSync1"

state_after_length(length) ==
    IF length = 0 THEN "ReadingChecksum1"
    ELSE IF length <= PAYLOAD_CAPACITY THEN "ReadingPayload"
    ELSE "WaitingForSync1"

(***************************************************************************)
(* UbxParser::parse_byte, one action per arm of its match.  Each arm sets  *)
(* what the call returns (result) and whether it printed the checksum      *)
(* diagnostic (diag).                                                      *)
(***************************************************************************)
\* A sync search that re-tests a rejected second byte as a first sync byte.
state_after_sync2_retest(byte) ==
    IF byte = UBX_SYNC_CHAR_2 THEN "ReadingClass"
    ELSE IF byte = UBX_SYNC_CHAR_1 THEN "WaitingForSync2"
    ELSE "WaitingForSync1"

\* A sync search that keeps waiting for 0x62 after any other byte.
state_after_sync2_keep_waiting(byte) ==
    IF byte = UBX_SYNC_CHAR_2 THEN "ReadingClass" ELSE "WaitingForSync2"

state_after_sync2(byte) ==
    IF byte = UBX_SYNC_CHAR_2 THEN "ReadingClass" ELSE "WaitingForSync1"

WaitingForSync1(byte) ==
    /\ state = "WaitingForSync1"
    /\ state' = IF byte = UBX_SYNC_CHAR_1 THEN "WaitingForSync2" ELSE state
    /\ result' = {}
    /\ diag' = FALSE
    /\ UNCHANGED <<message, payload_index, calculated_checksum_a, calculated_checksum_b>>

\* Both branches zero the accumulators; the else branch (reset) also rewinds the index.
WaitingForSync2(byte) ==
    /\ state = "WaitingForSync2"
    /\ state' = state_after_sync2(byte)
    /\ calculated_checksum_a' = 0
    /\ calculated_checksum_b' = 0
    /\ payload_index' = IF state_after_sync2(byte) = "ReadingClass" THEN payload_index ELSE 0
    /\ result' = {}
    /\ diag' = FALSE
    /\ UNCHANGED message

ReadingClass(byte) ==
    /\ state = "ReadingClass"
    /\ message' = [message EXCEPT !.class = byte]
    /\ LET ck == calculate_checksum(calculated_checksum_a, calculated_checksum_b, byte)
       IN  calculated_checksum_a' = ck.a /\ calculated_checksum_b' = ck.b
    /\ state' = "ReadingId"
    /\ result' = {}
    /\ diag' = FALSE
    /\ UNCHANGED payload_index

ReadingId(byte) ==
    /\ state = "ReadingId"
    /\ message' = [message EXCEPT !.id = byte]
    /\ LET ck == calculate_checksum(calculated_checksum_a, calculated_checksum_b, byte)
       IN  calculated_checksum_a' = ck.a /\ calculated_checksum_b' = ck.b
    /\ state' = "ReadingLength1"
    /\ result' = {}
    /\ diag' = FALSE
    /\ UNCHANGED payload_index

\* A low length byte or-ed into the length the last frame left (|=) where the code
\* assigns it (=).
ReadingLength1_or_assigned(byte) ==
    /\ state = "ReadingLength1"
    /\ message' = [message EXCEPT !.length = BitOr(message.length, byte)]
    /\ LET ck == calculate_checksum(calculated_checksum_a, calculated_checksum_b, byte)
       IN  calculated_checksum_a' = ck.a /\ calculated_checksum_b' = ck.b
    /\ state' = "ReadingLength2"
    /\ result' = {}
    /\ diag' = FALSE
    /\ UNCHANGED payload_index

ReadingLength1(byte) ==
    /\ state = "ReadingLength1"
    /\ message' = [message EXCEPT !.length = byte]
    /\ LET ck == calculate_checksum(calculated_checksum_a, calculated_checksum_b, byte)
       IN  calculated_checksum_a' = ck.a /\ calculated_checksum_b' = ck.b
    /\ state' = "ReadingLength2"
    /\ result' = {}
    /\ diag' = FALSE
    /\ UNCHANGED payload_index

\* A length arm that drops an oversized frame without calling reset().
ReadingLength2_oversize_without_reset(byte) ==
    /\ state = "ReadingLength2"
    /\ LET length == or_shl8(message.length, byte)
           ck == calculate_checksum(calculated_checksum_a, calculated_checksum_b, byte)
       IN  /\ message' = [message EXCEPT !.length = length]
           /\ payload_index' = 0
           /\ state' = state_after_length(length)
           /\ calculated_checksum_a' = ck.a
           /\ calculated_checksum_b' = ck.b
    /\ result' = {}
    /\ diag' = FALSE

\* The oversized branch calls reset(), which zeroes the accumulators.
ReadingLength2(byte) ==
    /\ state = "ReadingLength2"
    /\ LET length == or_shl8(message.length, byte)
           next == state_after_length(length)
           ck == calculate_checksum(calculated_checksum_a, calculated_checksum_b, byte)
       IN  /\ message' = [message EXCEPT !.length = length]
           /\ payload_index' = 0
           /\ state' = next
           /\ calculated_checksum_a' = IF next = "WaitingForSync1" THEN 0 ELSE ck.a
           /\ calculated_checksum_b' = IF next = "WaitingForSync1" THEN 0 ELSE ck.b
    /\ result' = {}
    /\ diag' = FALSE

\* A payload arm that leaves for ReadingChecksum1 one byte late.
ReadingPayload_late_exit(byte) ==
    /\ state = "ReadingPayload"
    /\ IF payload_index < message.length
       THEN IF payload_index < PAYLOAD_CAPACITY
            THEN /\ message' = [message EXCEPT !.payload[payload_index] = byte]
                 /\ payload_index' = payload_index + 1
                 /\ LET ck == calculate_checksum(calculated_checksum_a, calculated_checksum_b, byte)
                    IN  calculated_checksum_a' = ck.a /\ calculated_checksum_b' = ck.b
                 /\ state' = IF payload_index + 1 > message.length
                             THEN "ReadingChecksum1" ELSE state
            ELSE /\ state' = "Panicked"
                 /\ UNCHANGED <<message, payload_index, calculated_checksum_a,
                                calculated_checksum_b>>
       ELSE /\ state' = "WaitingForSync1"
            /\ payload_index' = 0
            /\ calculated_checksum_a' = 0
            /\ calculated_checksum_b' = 0
            /\ UNCHANGED message
    /\ result' = {}
    /\ diag' = FALSE

\* payload[payload_index] is bounds-checked: an index of 256 or more panics, and
\* panic_halt stops the program (state "Panicked", which no arm handles).
ReadingPayload(byte) ==
    /\ state = "ReadingPayload"
    /\ IF payload_index < message.length
       THEN IF payload_index < PAYLOAD_CAPACITY
            THEN /\ message' = [message EXCEPT !.payload[payload_index] = byte]
                 /\ payload_index' = payload_index + 1
                 /\ LET ck == calculate_checksum(calculated_checksum_a, calculated_checksum_b, byte)
                    IN  calculated_checksum_a' = ck.a /\ calculated_checksum_b' = ck.b
                 /\ state' = IF payload_index + 1 >= message.length
                             THEN "ReadingChecksum1" ELSE state
            ELSE /\ state' = "Panicked"
                 /\ UNCHANGED <<message, payload_index, calculated_checksum_a,
                                calculated_checksum_b>>
       ELSE /\ state' = "WaitingForSync1"
            /\ payload_index' = 0
            /\ calculated_checksum_a' = 0
            /\ calculated_checksum_b' = 0
            /\ UNCHANGED message
    /\ result' = {}
    /\ diag' = FALSE

ReadingChecksum1(byte) ==
    /\ state = "ReadingChecksum1"
    /\ message' = [message EXCEPT !.checksum_a = byte]
    /\ state' = "ReadingChecksum2"
    /\ result' = {}
    /\ diag' = FALSE
    /\ UNCHANGED <<payload_index, calculated_checksum_a, calculated_checksum_b>>

\* A last arm whose reset also replaces the message by UbxMessage::new().
ReadingChecksum2_zeroing(byte) ==
    /\ state = "ReadingChecksum2"
    /\ LET msg == [message EXCEPT !.checksum_b = byte]
           ok == checksum_verified(calculated_checksum_a, calculated_checksum_b,
                                   msg.checksum_a, msg.checksum_b)
       IN  /\ message' = UbxMessage_new
           /\ result' = IF ok THEN process_message(msg) ELSE {}
           /\ diag' = ~ok
    /\ state' = "WaitingForSync1"
    /\ payload_index' = 0
    /\ calculated_checksum_a' = 0
    /\ calculated_checksum_b' = 0

\* A last arm that resets after a matching checksum only.
ReadingChecksum2_stays_on_mismatch(byte) ==
    /\ state = "ReadingChecksum2"
    /\ LET msg == [message EXCEPT !.checksum_b = byte]
           ok == checksum_verified(calculated_checksum_a, calculated_checksum_b,
                                   msg.checksum_a, msg.checksum_b)
       IN  /\ message' = msg
           /\ result' = IF ok THEN process_message(msg) ELSE {}
           /\ diag' = ~ok
           /\ state' = IF ok THEN "WaitingForSync1" ELSE state
           /\ payload_index' = IF ok THEN 0 ELSE payload_index
           /\ calculated_checksum_a' = IF ok THEN 0 ELSE calculated_checksum_a
           /\ calculated_checksum_b' = IF ok THEN 0 ELSE calculated_checksum_b

\* Both paths end in reset().
ReadingChecksum2(byte) ==
    /\ state = "ReadingChecksum2"
    /\ LET msg == [message EXCEPT !.checksum_b = byte]
           ok == checksum_verified(calculated_checksum_a, calculated_checksum_b,
                                   msg.checksum_a, msg.checksum_b)
       IN  /\ message' = msg
           /\ result' = IF ok THEN process_message(msg) ELSE {}
           /\ diag' = ~ok
    /\ state' = "WaitingForSync1"
    /\ payload_index' = 0
    /\ calculated_checksum_a' = 0
    /\ calculated_checksum_b' = 0


(***************************************************************************)
(* UbxConfig: the two pre-built commands.                                  *)
(***************************************************************************)
get_port_config_ubx_only ==
    <<181, 98,  6, 0,  20, 0,
      1, 0, 0, 0,  0, 35, 0, 35,  0, 150, 0, 0,  1, 0,  1, 0,  0, 0,  0, 0,
      65, 40>>

get_enable_nav_pvt ==
    <<181, 98,  6, 1,  3, 0,  1, 7, 1,  19, 81>>

(***************************************************************************)
(* main's own copies of the two commands, which it writes to the UART.     *)
(***************************************************************************)
ubx_cfg_nmea_off ==
    <<181, 98,  6, 0,  20, 0,
      1,  0,  0, 0,  0, 35, 0, 35,  0, 150, 0, 0,  1, 0,  1, 0,  0, 0,  0, 0,
      65, 40>>

ubx_cfg_pvt ==
    <<181, 98,  6, 1,  3, 0,  1, 7,  1,  19, 81>>

(***************************************************************************)
(* What the receiver sends: frames in the wire format                      *)
(*   B5 62 class id len_lo len_hi payload ck_a ck_b                        *)
(* with the protocol's checksum over class .. payload.                     *)
(***************************************************************************)
\* The protocol's checksum of bytes[lo..hi]: starting from (0, 0), for each byte in
\* order, ckA = (ckA + byte) mod 256; ckB = (ckB + ckA) mod 256.  The range is
\* folded by halves (which keeps the evaluation shallow): a range is summarised
\* as <<ckA, ckB, n>>, and the range l followed by the range r has
\* ckA = l.ckA + r.ckA and ckB = l.ckB + n(r) * l.ckA + r.ckB.
RECURSIVE ubx_checksum_fold(_, _, _)
ubx_checksum_fold(bytes, lo, hi) ==
    IF lo > hi THEN <<0, 0, 0>>
    ELSE IF lo = hi THEN <<bytes[lo] % 256, bytes[lo] % 256, 1>>
    ELSE LET mid == (lo + hi) \div 2
             l == ubx_checksum_fold(bytes, lo, mid)
             r == ubx_checksum_fold(bytes, mid + 1, hi)
         IN  <<(l[1] + r[1]) % 256, (l[2] + r[3] * l[1] + r[2]) % 256, l[3] + r[3]>>

ubx_checksum(bytes) ==
    LET ck == ubx_checksum_fold(bytes, 1, Len(bytes)) IN <<ck[1], ck[2]>>

\* A frame whose checksum bytes are off by (da, db) from the correct ones.
UbxFrame(class, id, length, payload, da, db) ==
    LET body == <<class, id, length % 256, length \div 256>> \o payload
        ck == ubx_checksum(body)
    IN  <<UBX_SYNC_CHAR_1, UBX_SYNC_CHAR_2>> \o body
            \o <<(ck[1] + da) % 256, (ck[2] + db) % 256>>

\* The least declared length the decoder refuses.
OVERSIZE_LEN == PAYLOAD_CAPACITY + 1

Pattern(seed, i) == (37 * i + 91 * seed + 5) % 256

\* A NAV-PVT payload: the fix type at offset 20, the flags at offset 21.
NavPvtPayload(length, seed, fix_type, flags) ==
    [i \in 1..length |->
        IF i - 1 = 20 THEN fix_type
        ELSE IF i - 1 = 21 THEN flags
        ELSE Pattern(seed, i - 1)]

NavPvtFrame(length, seed, fix_type, flags) ==
    UbxFrame(UBX_CLASS_NAV, UBX_NAV_PVT, length,
             NavPvtPayload(length, seed, fix_type, flags), 0, 0)

\* Frames declaring 257 payload bytes: patterned payload; the same with a last
\* byte of 0xB5; and a payload that starts with a whole NAV-PVT frame.
OversizePlain ==
    UbxFrame(UBX_CLASS_NAV, UBX_NAV_PVT, OVERSIZE_LEN,
             [i \in 1..OVERSIZE_LEN |-> Pattern(0, i - 1)], 0, 0)

OversizeEndingInSync1 ==
    [i \in 1..Len(OversizePlain) |->
        IF i = Len(OversizePlain) THEN UBX_SYNC_CHAR_1 ELSE OversizePlain[i]]

OversizeEmbedding ==
    LET inner == NavPvtFrame(NAV_PVT_MIN_LEN, 0, 3, 1)
    IN  UbxFrame(UBX_CLASS_NAV, UBX_NAV_PVT, OVERSIZE_LEN,
                 inner \o [i \in 1..(OVERSIZE_LEN - Len(inner)) |-> 0], 0, 0)

\* The chunks of Spec: recognized frames (good, checksum A off, checksum B off,
\* one byte short of decodable), the two commands, oversized frames, line noise.
Chunks ==
    { NavPvtFrame(NAV_PVT_MIN_LEN, 0, 3, 1),
      NavPvtFrame(NAV_PVT_MIN_LEN + MaxExtraLen, MaxSeed, 2, 1),
      UbxFrame(UBX_CLASS_NAV, UBX_NAV_PVT, NAV_PVT_MIN_LEN,
               NavPvtPayload(NAV_PVT_MIN_LEN, 0, 3, 1), 1, 0),
      UbxFrame(UBX_CLASS_NAV, UBX_NAV_PVT, NAV_PVT_MIN_LEN,
               NavPvtPayload(NAV_PVT_MIN_LEN, 0, 3, 1), 0, 1),
      NavPvtFrame(NAV_PVT_MIN_LEN - 1, 0, 3, 1),
      get_port_config_ubx_only,
      get_enable_nav_pvt,
      OversizePlain, OversizeEndingInSync1, OversizeEmbedding,
      <<UBX_SYNC_CHAR_1>>,
      <<UBX_SYNC_CHAR_1, UBX_SYNC_CHAR_1, UBX_SYNC_CHAR_2>> }

(***************************************************************************)
(* The receive loop of main: UbxParser::new(), then every byte rx.read()   *)
(* delivers goes to parse_byte.  Init is main as it enters the loop, both  *)
(* commands written.                                                       *)
(***************************************************************************)
Init ==
    /\ state = "WaitingForSync1"
    /\ message = UbxMessage_new
    /\ payload_index = 0
    /\ calculated_checksum_a = 0
    /\ calculated_checksum_b = 0
    /\ result = {}
    /\ diag = FALSE
    /\ chunk = <<>>
    /\ off = 0
    /\ sent = 0
    /\ prev_chunk = <<>>
    /\ frame = <<>>
    /\ sync_seen = FALSE
    /\ b5_run = 0
    /\ pc = <<"loop", 0>>
    /\ uart_tx = ubx_cfg_nmea_off \o ubx_cfg_pvt

\* Chunk c goes on the line once the last chunk is fully read.
Put(c) ==
    /\ off = Len(chunk)
    /\ chunk' = c
    /\ prev_chunk' = chunk
    /\ off' = 0
    /\ sent' = sent + 1
    /\ UNCHANGED <<parser_vars, result, diag, frame, sync_seen, b5_run, main_vars>>

\* The receiver sends any of the chunks of Spec.
Transmit ==
    /\ sent < MaxChunks
    /\ \E c \in Chunks : Put(c)

\* The byte rx.read() delivers next.
NextByte == chunk[off + 1]

\* rx.read() is Ok(NextByte): the byte leaves the line and joins the history.
Receive ==
    /\ pc[1] = "loop"
    /\ off < Len(chunk)
    /\ off' = off + 1
    /\ frame' = IF state = "WaitingForSync1" THEN <<NextByte>> ELSE Append(frame, NextByte)
    /\ sync_seen' = (sync_seen \/ (b5_run > 0 /\ NextByte = UBX_SYNC_CHAR_2))
    /\ b5_run' = IF NextByte = UBX_SYNC_CHAR_1 THEN b5_run + 1 ELSE 0
    /\ UNCHANGED <<chunk, sent, prev_chunk, main_vars>>

\* One iteration of the loop in which rx.read() is Ok(byte): parse_byte(byte).
ParseByte ==
    \/ Receive /\ WaitingForSync1(NextByte)
    \/ Receive /\ WaitingForSync2(NextByte)
    \/ Receive /\ ReadingClass(NextByte)
    \/ Receive /\ ReadingId(NextByte)
    \/ Receive /\ ReadingLength1(NextByte)
    \/ Receive /\ ReadingLength2(NextByte)
    \/ Receive /\ ReadingPayload(NextByte)
    \/ Receive /\ ReadingChecksum1(NextByte)
    \/ Receive /\ ReadingChecksum2(NextByte)

Next == Transmit \/ ParseByte

Spec == Init /\ [][Next]_vars


(***************************************************************************)
(* SpecNoise: the line carries arbitrary bytes of a small alphabet (the    *)
(* two sync bytes and two others), one at a time.                          *)
(***************************************************************************)
MaxNoise == 9      \* bytes on the line in one run of SpecNoise

NoiseBytes == {0, 1, UBX_SYNC_CHAR_1, UBX_SYNC_CHAR_2}

TransmitNoise ==
    /\ sent < MaxNoise
    /\ \E b \in NoiseBytes : Put(<<b>>)

NextNoise == TransmitNoise \/ ParseByte

SpecNoise == Init /\ [][NextNoise]_vars

(***************************************************************************)
(* SpecFrame: one recognized frame with a correct checksum is fed to a new *)
(* decoder.                                                                *)
(***************************************************************************)
\* The declared lengths of its frames: the shortest decodable ones, the longest
\* the buffer holds, and one byte more.
FrameLengths ==
    (NAV_PVT_MIN_LEN .. (NAV_PVT_MIN_LEN + MaxExtraLen)) \cup {PAYLOAD_CAPACITY, OVERSIZE_LEN}

FixTypes == {0, 1, 2, 3, 4, 5, 255}

FlagValues == {0, 1, 2, 3, 128, 254, 255}

RecognizedFrames ==
    { NavPvtFrame(n, seed, fix_type, flags) :
        n \in FrameLengths, seed \in 0..MaxSeed, fix_type \in FixTypes, flags \in FlagValues }

TransmitFrame ==
    /\ sent = 0
    /\ \E c \in RecognizedFrames : Put(c)

NextFrame == TransmitFrame \/ ParseByte

SpecFrame == Init /\ [][NextFrame]_vars

(***************************************************************************)
(* SpecFlip: one recognized, well-formed frame, of which the line changes  *)
(* one payload byte (the checksum bytes are left as sent) before the       *)
(* decoder reads it.  prev_chunk then holds the frame as it was sent.      *)
(***************************************************************************)
BaseFrames ==
    { NavPvtFrame(NAV_PVT_MIN_LEN, 0, 3, 1),
      NavPvtFrame(NAV_PVT_MIN_LEN + MaxExtraLen, MaxSeed, 3, 1) }

\* What is added (mod 256) to the byte: every single-bit change and a few others.
FlipDeltas == (1..8) \cup {16, 32, 64, 127, 128, 129, 192, 254, 255}

TransmitBase ==
    /\ sent = 0
    /\ \E c \in BaseFrames : Put(c)

Corrupt ==
    /\ sent = 1
    /\ off = 0
    /\ prev_chunk = <<>>
    /\ \E i \in 0..(Len(chunk) - 9), d \in FlipDeltas :
          chunk' = [chunk EXCEPT ![7 + i] = (@ + d) % 256]
    /\ prev_chunk' = chunk
    /\ UNCHANGED <<parser_vars, result, diag, off, sent, frame, sync_seen, b5_run,
                    main_vars>>

NextFlip == TransmitBase \/ Corrupt \/ ParseByte

SpecFlip == Init /\ [][NextFlip]_vars


(***************************************************************************)
(* What the claims say of a byte sequence c on the wire.                   *)
(***************************************************************************)
\* The payload byte at offset o of a frame c, and its little-endian fields.
PayloadByte(c, o) == c[7 + o]

FieldU16(c, o) == PayloadByte(c, o) + 256 * PayloadByte(c, o + 1)

FieldI32(c, o) ==
    LET high == FieldU16(c, o + 2)
    IN  FieldU16(c, o) + 65536 * (IF high >= 32768 THEN high - 65536 ELSE high)

FieldU32(c, o) == <<FieldU16(c, o), FieldU16(c, o + 2)>>

DeclaredLength(c) == c[5] + 256 * c[6]

\* c is sync, class, id, length, that many payload bytes and two checksum bytes.
HasFrameShape(c) ==
    /\ Len(c) >= 8
    /\ c[1] = UBX_SYNC_CHAR_1
    /\ c[2] = UBX_SYNC_CHAR_2
    /\ Len(c) = DeclaredLength(c) + 8

\* The last two bytes of c are the checksum of its class .. payload bytes.
ChecksumMatches(c) ==
    LET ck == ubx_checksum_fold(c, 3, Len(c) - 2)
    IN  ck[1] = c[Len(c) - 1] /\ ck[2] = c[Len(c)]

Recognized(c) == c[3] = 1 /\ c[4] = 7

\* Well-formed as C2 words it: no upper limit on the declared length.
WellFormedAnyLength(c) ==
    /\ HasFrameShape(c)
    /\ Recognized(c)
    /\ DeclaredLength(c) >= 84
    /\ ChecksumMatches(c)

\* Well-formed, with a payload the decoder's buffer can hold.
WellFormed(c) == WellFormedAnyLength(c) /\ DeclaredLength(c) <= 256

(***************************************************************************)
(* C1 (as claimed): parse_byte returns Some(record) exactly when the byte  *)
(* just consumed completes a frame whose received checksum equals the      *)
(* accumulated one and whose class/id is 0x01/0x07.  Refuted: a recognized *)
(* frame with a correct checksum and fewer than 84 payload bytes returns   *)
(* None.                                                                   *)
(***************************************************************************)
C1_SomeIffRecognizedChecksumValid ==
    (result # {}) <=>
        (HasFrameShape(frame) /\ ChecksumMatches(frame) /\ Recognized(frame))

(***************************************************************************)
(* C1 (amended): parse_byte returns Some(record) exactly when the byte     *)
(* just consumed completes a frame whose received checksum equals the      *)
(* accumulated one, whose class/id is 0x01/0x07 and whose declared length  *)
(* is at least 84 (and at most 256, or the decoder does not follow the     *)
(* frame to its end).  Stated of the bytes since the decoder left          *)
(* WaitingForSync1, and of the last byte of a first chunk that is a frame. *)
(***************************************************************************)
C1_SomeIffRecognizedChecksumValidDecodable ==
    /\ (result # {}) <=>
          (/\ HasFrameShape(frame)
           /\ ChecksumMatches(frame)
           /\ Recognized(frame)
           /\ DeclaredLength(frame) >= 84
           /\ DeclaredLength(frame) <= 256)
    /\ (sent = 1 /\ off = Len(chunk) /\ HasFrameShape(chunk)) =>
          ((result # {}) <=> WellFormed(chunk))

C1_Witness == result # {} /\ WellFormed(frame) /\ sent = 2

(***************************************************************************)
(* C2 (as claimed): a well-formed recognized frame (length >= 84, correct   *)
(* checksum) fed to a new decoder returns None for every byte but the last *)
(* and Some for the last.  Refuted by a frame of declared length 257.      *)
(* (Stated contrapositively: a chunk some byte of which does otherwise is  *)
(* not such a frame.)                                                      *)
(***************************************************************************)
C2_OnlyLastByteYieldsRecordAnyLength ==
    (sent = 1 /\ off >= 1 /\ ((result # {}) # (off = Len(chunk)))) =>
        ~WellFormedAnyLength(chunk)

(***************************************************************************)
(* C2 (amended): the same for a declared length of at least 84 and at most *)
(* 256.                                                                    *)
(***************************************************************************)
C2_OnlyLastByteYieldsRecord ==
    (sent = 1 /\ off >= 1 /\ ((result # {}) # (off = Len(chunk)))) =>
        ~WellFormed(chunk)

C2_Witness ==
    /\ sent = 1
    /\ WellFormed(chunk)
    /\ DeclaredLength(chunk) = 256
    /\ off = Len(chunk)
    /\ result # {}

(***************************************************************************)
(* C3 (as claimed): after any bytes without the pattern B5 62, fed to a    *)
(* new decoder, every call returned None and the decoder is in             *)
(* WaitingForSync1.  Refuted by the single byte B5.                        *)
(***************************************************************************)
C3_NoSyncPatternLeavesWaitingForSync1 ==
    ~sync_seen => (result = {} /\ state = "WaitingForSync1")

(***************************************************************************)
(* C3 (amended): after any bytes without the pattern B5 62, fed to a new   *)
(* decoder, every call returned None and the decoder is in                 *)
(* WaitingForSync1, unless the bytes end in an odd number of B5 bytes, in  *)
(* which case it is in WaitingForSync2.                                    *)
(***************************************************************************)
C3_NoSyncPatternLeavesSyncSearch ==
    ~sync_seen =>
        /\ result = {}
        /\ state = IF b5_run % 2 = 1 THEN "WaitingForSync2" ELSE "WaitingForSync1"

C3_Witness == ~sync_seen /\ sent = MaxNoise /\ off = 1 /\ b5_run = 2


(***************************************************************************)
(* C4: a well-formed recognized frame of which one payload byte is changed *)
(* (any position, any other value) while the checksum bytes stay returns   *)
(* None on its last byte, as a checksum mismatch.                          *)
(***************************************************************************)
\* c is orig with exactly one byte changed, and that byte is a payload byte.
OnePayloadByteChanged(c, orig) ==
    /\ Len(c) = Len(orig)
    /\ Cardinality({i \in 1..Len(c) : c[i] # orig[i]}) = 1
    /\ \A i \in 1..Len(c) : c[i] # orig[i] => (i >= 7 /\ i <= Len(c) - 2)

C4_ChangedPayloadByteIsChecksumMismatch ==
    (off = Len(chunk) /\ WellFormed(prev_chunk) /\ OnePayloadByteChanged(chunk, prev_chunk)) =>
        (result = {} /\ diag)

\* The change adds 128 to an even-weighted byte: the second checksum byte alone
\* would not show it.
C4_Witness ==
    /\ off = Len(chunk)
    /\ WellFormed(prev_chunk)
    /\ OnePayloadByteChanged(chunk, prev_chunk)
    /\ chunk[8] = (prev_chunk[8] + 128) % 256
    /\ diag

(***************************************************************************)
(* C5 (as claimed): of a frame declaring length 257 (257 payload bytes of  *)
(* any values, two checksum bytes) fed to a new decoder no byte yields a   *)
(* record, and a well-formed recognized frame fed right after it yields    *)
(* its record on its last byte.  Refuted: a payload that holds a whole     *)
(* frame yields a record, and a last byte of B5 makes the decoder miss the *)
(* sync of the frame that follows.                                         *)
(***************************************************************************)
Oversized(c) ==
    /\ Len(c) = OVERSIZE_LEN + 8
    /\ c[1] = UBX_SYNC_CHAR_1
    /\ c[2] = UBX_SYNC_CHAR_2
    /\ DeclaredLength(c) = OVERSIZE_LEN

C5_OversizedDiscardedThenResync ==
    /\ (sent = 1 /\ off >= 1 /\ Oversized(chunk)) => result = {}
    /\ (sent = 2 /\ off = Len(chunk) /\ Oversized(prev_chunk) /\ WellFormed(chunk)) =>
          result # {}

(***************************************************************************)
(* C5 (amended): the same, for a frame whose payload and checksum bytes    *)
(* hold no B5 immediately followed by 62 and do not end in an odd number   *)
(* of B5 bytes: no byte of it yields a record, from its high length byte   *)
(* on the decoder is searching for sync, and a well-formed recognized      *)
(* frame fed right after it yields its record on its last byte and on no   *)
(* other.                                                                  *)
(***************************************************************************)
\* The number of bytes equal to B5 that end c (c holds some other byte).
TrailingSync1(c) ==
    LET last == CHOOSE i \in 1..Len(c) :
                    c[i] # UBX_SYNC_CHAR_1 /\ \A j \in (i + 1)..Len(c) : c[j] = UBX_SYNC_CHAR_1
    IN  Len(c) - last

QuietAfterLength(c) ==
    /\ \A i \in 7..(Len(c) - 1) : ~(c[i] = UBX_SYNC_CHAR_1 /\ c[i + 1] = UBX_SYNC_CHAR_2)
    /\ TrailingSync1(c) % 2 = 0

C5_QuietOversizedDiscardedThenResync ==
    /\ (sent = 1 /\ off >= 1 /\ Oversized(chunk) /\ QuietAfterLength(chunk)) =>
          /\ result = {}
          /\ off >= 6 => state \in {"WaitingForSync1", "WaitingForSync2"}
          /\ off = Len(chunk) => state = "WaitingForSync1"
    /\ (sent = 2 /\ off >= 1 /\ Oversized(prev_chunk) /\ QuietAfterLength(prev_chunk)
             /\ WellFormed(chunk)) =>
          ((result # {}) <=> (off = Len(chunk)))

C5_Witness ==
    /\ sent = 2
    /\ Oversized(prev_chunk)
    /\ QuietAfterLength(prev_chunk)
    /\ WellFormed(chunk)
    /\ off = Len(chunk)
    /\ result # {}

(***************************************************************************)
(* C6: two well-formed recognized frames fed back to back yield exactly    *)
(* two records, one on the last byte of each, and each record is the one   *)
(* the frame yields when fed alone to a new decoder.                       *)
(***************************************************************************)
\* What a new decoder's buffer holds after frame c alone, and the record it gives.
BufferAfterAlone(c) ==
    [i \in 0..(PAYLOAD_CAPACITY - 1) |-> IF i < DeclaredLength(c) THEN c[7 + i] ELSE 0]

RecordAlone(c) == GpsData(BufferAfterAlone(c))

YieldsItsRecordOnLastByteOnly ==
    /\ (result # {}) <=> (off = Len(chunk))
    /\ off = Len(chunk) => result = {RecordAlone(chunk)}

C6_BackToBackFramesBothDecode ==
    /\ (sent = 1 /\ off >= 1 /\ WellFormed(chunk)) => YieldsItsRecordOnLastByteOnly
    /\ (sent = 2 /\ off >= 1 /\ WellFormed(prev_chunk) /\ WellFormed(chunk)) =>
          YieldsItsRecordOnLastByteOnly

C6_Witness ==
    /\ sent = 2
    /\ WellFormed(prev_chunk)
    /\ WellFormed(chunk)
    /\ chunk # prev_chunk
    /\ Len(chunk) < Len(prev_chunk)
    /\ off = Len(chunk)
    /\ result = {RecordAlone(chunk)}

(***************************************************************************)
(* C7: in every decoded record valid is true exactly when payload byte 20  *)
(* (fix type) is >= 3 and bit 0 of payload byte 21 (flags) is set.         *)
(***************************************************************************)
C7_ValidIffFix3AndFlagBit0 ==
    \A r \in result :
        r.valid <=> (PayloadByte(frame, 20) >= 3 /\ PayloadByte(frame, 21) % 2 = 1)

C7_Witness ==
    /\ \E r \in result : ~r.valid
    /\ PayloadByte(frame, 20) = 3
    /\ PayloadByte(frame, 21) = 254

(***************************************************************************)
(* C8: a checksum-valid recognized frame whose fix type is below 3 or      *)
(* whose flags bit 0 is clear still yields Some(record): valid is false    *)
(* and the date/time, position, accuracy, speed and satellite fields are   *)
(* the values at their payload offsets.                                    *)
(***************************************************************************)
FieldsAtOffsets(c) ==
    [year |-> FieldU16(c, 4),
     month |-> PayloadByte(c, 6),
     day |-> PayloadByte(c, 7),
     hour |-> PayloadByte(c, 8),
     minute |-> PayloadByte(c, 9),
     second |-> PayloadByte(c, 10),
     nano |-> FieldI32(c, 16),
     longitude |-> FieldI32(c, 24),
     latitude |-> FieldI32(c, 28),
     height_msl |-> FieldI32(c, 36),
     horizontal_accuracy |-> FieldU32(c, 40),
     vertical_accuracy |-> FieldU32(c, 44),
     ground_speed |-> FieldI32(c, 60),
     satellites |-> PayloadByte(c, 23)]

NoValidFix(c) == PayloadByte(c, 20) < 3 \/ PayloadByte(c, 21) % 2 = 0

C9_AccumulatorIsFoldOfClassThroughPayload ==
    state = "ReadingChecksum2" =>
        /\ frame[1] = UBX_SYNC_CHAR_1
        /\ frame[2] = UBX_SYNC_CHAR_2
        /\ Len(frame) = 6 + DeclaredLength(frame) + 1
        /\ LET ck == ubx_checksum_fold(frame, 3, 6 + DeclaredLength(frame))
           IN  calculated_checksum_a = ck[1] /\ calculated_checksum_b = ck[2]

C9_Witness ==
    /\ state = "ReadingChecksum2"
    /\ DeclaredLength(frame) = 84
    /\ calculated_checksum_a # frame[Len(frame)]

(***************************************************************************)
(* C10 (as claimed): the 28-byte port-configuration command is a           *)
(* checksum-valid frame, so feeding it to a new decoder completes without  *)
(* a checksum mismatch.  Refuted: the checksum of its class .. payload     *)
(* bytes is F9 B0 and its last two bytes are 41 28.                        *)
(***************************************************************************)
C10_PortConfigChecksumValid ==
    (sent = 1 /\ chunk = get_port_config_ubx_only /\ off = Len(chunk)) =>
        (~diag /\ ChecksumMatches(chunk))

(***************************************************************************)
(* C11: the 11-byte message-rate command is a checksum-valid frame: its    *)
(* last two bytes are the rolling checksum of its class, id, two length    *)
(* bytes and 3 payload bytes, and a new decoder fed the command follows it *)
(* to its last byte and reports no checksum mismatch.                      *)
(***************************************************************************)
C11_RateCommandChecksumValid ==
    (sent = 1 /\ chunk = get_enable_nav_pvt) =>
        /\ ~diag
        /\ off = Len(chunk) - 1 =>
              /\ state = "ReadingChecksum2"
              /\ calculated_checksum_a = chunk[Len(chunk) - 1]
              /\ calculated_checksum_b = chunk[Len(chunk)]
        /\ off = Len(chunk) =>
              /\ state = "WaitingForSync1"
              /\ HasFrameShape(chunk)
              /\ DeclaredLength(chunk) = 3
              /\ ChecksumMatches(chunk)

C11_Witness ==
    /\ sent = 1
    /\ chunk = get_enable_nav_pvt
    /\ off = Len(chunk)
    /\ message.checksum_a = 19
    /\ message.checksum_b = 81
    /\ ~diag

(***************************************************************************)
(* C12: the message-rate command enables the message the decoder           *)
(* recognizes: its payload bytes 0 and 1 are the one class/id pair for     *)
(* which process_message decodes a payload, and its payload byte 2 (the    *)
(* rate) is 1.  Stated of the decoder's buffer after the command was fed   *)
(* to a new decoder, which then holds the command's payload.               *)
(***************************************************************************)
\* process_message decodes a frame of this class and id (given enough payload).
Accepts(class, id) ==
    process_message([message EXCEPT !.class = class, !.id = id,
                                    !.length = NAV_PVT_MIN_LEN]) # {}

C12_RateCommandEnablesRecognizedMessage ==
    (sent = 1 /\ chunk = get_enable_nav_pvt /\ off = Len(chunk)) =>
        /\ message.length = 3
        /\ \A i \in 0..2 : message.payload[i] = PayloadByte(chunk, i)
        /\ \A class \in 0..255, id \in 0..255 :
              Accepts(class, id) <=>
                  (class = message.payload[0] /\ id = message.payload[1])
        /\ message.payload[2] = 1

C12_Witness ==
    /\ sent = 1
    /\ chunk = get_enable_nav_pvt
    /\ off = Len(chunk)
    /\ Accepts(message.payload[0], message.payload[1])
    /\ message.class = 6
    /\ message.id = 1

(***************************************************************************)
(* SpecKinds: the receiver sends whole frames of every kind the decoder    *)
(* tells apart, back to back: recognized and decodable, recognized but too *)
(* short, of another class/id, of length 0, with a wrong checksum, with an *)
(* oversized length; and a lone 0xB5 followed by a byte that is not 0x62.  *)
(***************************************************************************)
\* Frames of another class/id, with a correct checksum.
OtherFrames ==
    { UbxFrame(UBX_CLASS_NAV, 2, NAV_PVT_MIN_LEN,
               NavPvtPayload(NAV_PVT_MIN_LEN, 0, 3, 1), 0, 0),
      UbxFrame(6, UBX_NAV_PVT, NAV_PVT_MIN_LEN + MaxExtraLen,
               NavPvtPayload(NAV_PVT_MIN_LEN + MaxExtraLen, MaxSeed, 3, 1), 0, 0),
      UbxFrame(UBX_NAV_PVT, UBX_CLASS_NAV, PAYLOAD_CAPACITY,
               NavPvtPayload(PAYLOAD_CAPACITY, 0, 3, 1), 0, 0),
      UbxFrame(5, 1, 2, <<6, 1>>, 0, 0),
      UbxFrame(10, 4, 0, <<>>, 0, 0),
      get_enable_nav_pvt }

\* Recognized frames with a correct checksum and too few payload bytes to decode.
ShortFrames ==
    { NavPvtFrame(n, MaxSeed, 3, 1) : n \in {0, 1, 21, NAV_PVT_MIN_LEN - 1} }

\* Frames whose checksum bytes are not the checksum of their contents.
BadChecksumFrames ==
    { UbxFrame(UBX_CLASS_NAV, UBX_NAV_PVT, NAV_PVT_MIN_LEN,
               NavPvtPayload(NAV_PVT_MIN_LEN, 0, 3, 1), 1, 0),
      UbxFrame(UBX_CLASS_NAV, UBX_NAV_PVT, NAV_PVT_MIN_LEN,
               NavPvtPayload(NAV_PVT_MIN_LEN, 0, 3, 1), 0, 128),
      UbxFrame(UBX_CLASS_NAV, UBX_NAV_PVT, 0, <<>>, 0, 1),
      UbxFrame(UBX_CLASS_NAV, UBX_NAV_PVT, 1, <<MaxSeed>>, 255, 255),
      UbxFrame(6, 1, 3, <<1, 7, 1>>, 255, 0),
      UbxFrame(10, 4, 0, <<>>, 2, 2) }

GoodFrames ==
    { NavPvtFrame(NAV_PVT_MIN_LEN, 0, 3, 1),
      NavPvtFrame(NAV_PVT_MIN_LEN + MaxExtraLen, MaxSeed, 2, 1) }

\* The first six bytes of frames that declare more than the buffer holds.
OversizeHeaders ==
    { <<UBX_SYNC_CHAR_1, UBX_SYNC_CHAR_2, UBX_CLASS_NAV, UBX_NAV_PVT, n % 256, n \div 256>> :
        n \in {OVERSIZE_LEN + 1, 2 * PAYLOAD_CAPACITY, 256 * NAV_PVT_MIN_LEN, 65535} }

KindFrames ==
    OtherFrames \cup ShortFrames \cup BadChecksumFrames \cup GoodFrames
        \cup OversizeHeaders \cup {OversizePlain, <<UBX_SYNC_CHAR_1, 0>>}

TransmitKind ==
    /\ sent < MaxChunks
    /\ \E c \in KindFrames : Put(c)

NextKinds == TransmitKind \/ ParseByte

SpecKinds == Init /\ [][NextKinds]_vars

(***************************************************************************)
(* C13: a checksum-valid frame of a class/id other than 0x01/0x07 with a   *)
(* declared length of at most 256, met by a decoder that is searching for  *)
(* sync, is parsed to its end: each of its bytes returns None, no checksum *)
(* diagnostic is printed, the decoder leaves WaitingForSync1 on its first  *)
(* byte and is back there right after its last, and a well-formed          *)
(* recognized frame that follows yields its record.                        *)
(***************************************************************************)
\* c is a frame of another class/id that the buffer can hold, with a correct checksum.
OtherClassId(c) ==
    /\ HasFrameShape(c)
    /\ ~Recognized(c)
    /\ DeclaredLength(c) <= 256
    /\ ChecksumMatches(c)

C13_OtherClassIdParsedAndDiscarded ==
    /\ (off >= 1 /\ OtherClassId(chunk)) =>
          /\ result = {}
          /\ ~diag
          /\ (state = "WaitingForSync1") <=> (off = Len(chunk))
          /\ frame = SubSeq(chunk, 1, off)
    /\ (sent >= 2 /\ off >= 1 /\ chunk \in GoodFrames /\ OtherClassId(prev_chunk)) =>
          /\ (result # {}) <=> (off = Len(chunk))
          /\ off = Len(chunk) => result = {RecordAlone(chunk)}

C13_Witness ==
    /\ sent = 2
    /\ OtherClassId(prev_chunk)
    /\ prev_chunk[3] = UBX_CLASS_NAV
    /\ DeclaredLength(prev_chunk) = NAV_PVT_MIN_LEN
    /\ chunk \in GoodFrames
    /\ off = Len(chunk)
    /\ result = {RecordAlone(chunk)}

(***************************************************************************)
(* C14: a checksum-valid frame of class 0x01, id 0x07 with a declared      *)
(* length below 84 returns None on its last byte (as on every other),      *)
(* prints no checksum diagnostic, and leaves the decoder in                *)
(* WaitingForSync1.                                                        *)
(***************************************************************************)
\* c is a recognized frame with a correct checksum and fewer than 84 payload bytes.
ShortRecognized(c) ==
    /\ HasFrameShape(c)
    /\ Recognized(c)
    /\ DeclaredLength(c) < 84
    /\ ChecksumMatches(c)

C14_ShortRecognizedFrameYieldsNothing ==
    (off >= 1 /\ ShortRecognized(chunk)) =>
        /\ result = {}
        /\ ~diag
        /\ off = Len(chunk) =>
              /\ state = "WaitingForSync1"
              /\ frame = chunk
              /\ message.length = DeclaredLength(chunk)

C14_Witness ==
    /\ ShortRecognized(chunk)
    /\ DeclaredLength(chunk) = 83
    /\ off = Len(chunk)
    /\ frame = chunk
    /\ result = {}
    /\ ~diag

(***************************************************************************)
(* C15 (as claimed): after every terminal transition (a frame completed    *)
(* with a matching checksum, completed with a mismatch, or dropped for a   *)
(* declared length above 256) the in-flight frame is zeroed: class, id,    *)
(* declared length, received checksum bytes and payload read as zero and   *)
(* the payload write index is 0.  Refuted: reset() rewinds the index and   *)
(* the accumulators and leaves the message as the frame wrote it.          *)
(***************************************************************************)
\* The last parse_byte call completed a frame, or dropped one at its high length byte.
FrameCompleted == state = "WaitingForSync1" /\ HasFrameShape(frame)

FrameDropped ==
    state = "WaitingForSync1" /\ Len(frame) = 6 /\ DeclaredLength(frame) > 256

C15_FrameZeroedAfterTerminalTransition ==
    (FrameCompleted \/ FrameDropped) =>
        /\ message = UbxMessage_new
        /\ payload_index = 0

(***************************************************************************)
(* C15 (amended): after every terminal transition the payload write index  *)
(* and both checksum accumulators are 0, and the in-flight frame is not    *)
(* zeroed: class, id and declared length are those of the frame that just  *)
(* ended, and after a completed frame the received checksum bytes and the  *)
(* first declared-length payload bytes are that frame's too.               *)
(***************************************************************************)
C15_IndexRewoundFrameKeptAfterTerminalTransition ==
    /\ (FrameCompleted \/ FrameDropped) =>
          /\ payload_index = 0
          /\ calculated_checksum_a = 0
          /\ calculated_checksum_b = 0
          /\ message.class = frame[3]
          /\ message.id = frame[4]
          /\ message.length = DeclaredLength(frame)
    /\ FrameCompleted =>
          /\ message.checksum_a = frame[Len(frame) - 1]
          /\ message.checksum_b = frame[Len(frame)]
          /\ \A i \in 0..(DeclaredLength(frame) - 1) :
                message.payload[i] = PayloadByte(frame, i)

C15_Witness ==
    /\ FrameDropped
    /\ sent = 2
    /\ message.length = OVERSIZE_LEN
    /\ message.checksum_b # 0
    /\ message.payload[PAYLOAD_CAPACITY - 1] # 0
    /\ payload_index = 0

(***************************************************************************)
(* C16: when the byte consumed in ReadingLength2 makes the declared length *)
(* exceed 256, that call itself returns None and leaves the decoder in     *)
(* WaitingForSync1 with the payload buffer as it was; and a byte consumed  *)
(* in a sync-search state is never written to the buffer, so the bytes     *)
(* after the length are searched for sync, not stored.                     *)
(***************************************************************************)
\* The declared length once the byte about to be read is taken as its high byte.
LengthWithHighByte == message.length + 256 * NextByte

C16_OversizedDroppedAtHighLengthByte ==
    [][ /\ (state = "ReadingLength2" /\ off' = off + 1 /\ LengthWithHighByte > 256) =>
              /\ state' = "WaitingForSync1"
              /\ result' = {}
              /\ message'.payload = message.payload
              /\ message'.length = LengthWithHighByte
              /\ payload_index' = 0
        /\ (state \in {"WaitingForSync1", "WaitingForSync2"} /\ off' = off + 1) =>
              /\ state' \in {"WaitingForSync1", "WaitingForSync2", "ReadingClass"}
              /\ message' = message
              /\ result' = {}
      ]_vars

C16_Witness ==
    /\ FrameDropped
    /\ DeclaredLength(frame) = OVERSIZE_LEN
    /\ message.length = OVERSIZE_LEN
    /\ message.payload[PAYLOAD_CAPACITY - 1] # 0
    /\ result = {}

(***************************************************************************)
(* SpecResync: a few bytes of line noise, then one well-formed recognized  *)
(* frame.  prev_chunk holds the noise while the frame is read.             *)
(***************************************************************************)
MaxPrefix == 3     \* bytes of noise before the frame

Prefixes == UNION { [1..n -> NoiseBytes] : n \in 1..MaxPrefix }

TransmitPrefix ==
    /\ sent = 0
    /\ \E p \in Prefixes : Put(p)

TransmitAfterPrefix ==
    /\ sent = 1
    /\ \E c \in BaseFrames : Put(c)

NextResync == TransmitPrefix \/ TransmitAfterPrefix \/ ParseByte

SpecResync == Init /\ [][NextResync]_vars

(***************************************************************************)
(* C17 (as claimed): a byte other than 0x62 consumed in WaitingForSync2,   *)
(* 0xB5 included, returns the decoder to WaitingForSync1; so the bytes     *)
(* B5 B5 62 leave it in WaitingForSync1, and a frame that follows those    *)
(* three bytes directly is not decoded.  Refuted in its last part: the     *)
(* three bytes leave the decoder searching for sync, where the frame that  *)
(* follows is found and decoded.                                           *)
(***************************************************************************)
\* The last byte consumed was read in WaitingForSync2.
ReadInSync2 == Len(frame) = 2 /\ frame[1] = UBX_SYNC_CHAR_1

Sync2MismatchResets ==
    /\ ReadInSync2 =>
          (state = (IF frame[2] = UBX_SYNC_CHAR_2 THEN "ReadingClass" ELSE "WaitingForSync1"))
    /\ (sent = 1 /\ chunk = <<UBX_SYNC_CHAR_1, UBX_SYNC_CHAR_1, UBX_SYNC_CHAR_2>>
            /\ off = Len(chunk)) => state = "WaitingForSync1"

C17_FrameAfterB5B562NotDecoded ==
    /\ Sync2MismatchResets
    /\ (sent = 2 /\ prev_chunk = <<UBX_SYNC_CHAR_1, UBX_SYNC_CHAR_1, UBX_SYNC_CHAR_2>>) =>
          result = {}

(***************************************************************************)
(* C17 (amended): a byte other than 0x62 consumed in WaitingForSync2, 0xB5 *)
(* included, returns the decoder to WaitingForSync1; so the bytes B5 B5 62 *)
(* leave it in WaitingForSync1, and a frame whose two sync bytes are the   *)
(* last two of those three (a frame that directly follows one stray 0xB5)  *)
(* is not decoded, while a frame that follows the three bytes is.          *)
(***************************************************************************)
C17_FrameAfterStrayB5NotDecoded ==
    /\ Sync2MismatchResets
    /\ (sent = 2 /\ prev_chunk = <<UBX_SYNC_CHAR_1>>) => result = {}
    /\ (sent = 2 /\ prev_chunk = <<UBX_SYNC_CHAR_1, UBX_SYNC_CHAR_1, UBX_SYNC_CHAR_2>>
            /\ off >= 1) =>
          /\ (result # {}) <=> (off = Len(chunk))
          /\ off = Len(chunk) => result = {RecordAlone(chunk)}

C17_Witness ==
    /\ sent = 2
    /\ prev_chunk = <<UBX_SYNC_CHAR_1>>
    /\ off = Len(chunk)
    /\ WellFormed(chunk)
    /\ result = {}
    /\ ~diag

(***************************************************************************)
(* C18: ReadingChecksum2 is terminal: whatever byte is consumed in that    *)
(* state, whether the checksum matches or not and whatever the class/id,   *)
(* when parse_byte returns the decoder is in WaitingForSync1 with payload  *)
(* index 0 and both checksum accumulators 0.                               *)
(***************************************************************************)
C18_ReadingChecksum2IsTerminal ==
    [][ (state = "ReadingChecksum2" /\ off' = off + 1) =>
            /\ state' = "WaitingForSync1"
            /\ payload_index' = 0
            /\ calculated_checksum_a' = 0
            /\ calculated_checksum_b' = 0
      ]_vars

C18_Witness ==
    /\ FrameCompleted
    /\ ~Recognized(frame)
    /\ DeclaredLength(frame) = 3
    /\ diag
    /\ payload_index = 0
    /\ calculated_checksum_a = 0
    /\ calculated_checksum_b = 0

(***************************************************************************)
(* C19: the checksum diagnostic is printed by exactly those parse_byte     *)
(* calls that consume, in ReadingChecksum2, the last byte of a frame whose *)
(* received checksum differs from the accumulated one.  It is not printed  *)
(* for a sync mismatch, an oversized length, an unrecognized class/id or a *)
(* short payload; and after printing it the decoder is in WaitingForSync1  *)
(* and decodes the frame that follows.                                     *)
(***************************************************************************)
\* c is a whole frame the buffer can hold whose checksum bytes are wrong.
ChecksumMismatch(c) ==
    HasFrameShape(c) /\ DeclaredLength(c) <= 256 /\ ~ChecksumMatches(c)

C19_DiagnosticIffChecksumMismatch ==
    /\ diag <=> (FrameCompleted /\ ~ChecksumMatches(frame))
    /\ diag => (state = "WaitingForSync1" /\ result = {})
    /\ (Len(frame) = 2 /\ state = "WaitingForSync1") => ~diag
    /\ FrameDropped => ~diag
    /\ (off >= 1 /\ diag) => ~(OtherClassId(chunk) \/ ShortRecognized(chunk))
    /\ (off = Len(chunk) /\ ChecksumMismatch(chunk)) => diag
    /\ (sent >= 2 /\ off = Len(chunk) /\ chunk \in GoodFrames
            /\ ChecksumMismatch(prev_chunk)) => result = {RecordAlone(chunk)}

C19_Witness ==
    /\ sent = 2
    /\ ChecksumMismatch(prev_chunk)
    /\ prev_chunk[Len(prev_chunk) - 1] = ubx_checksum_fold(prev_chunk, 3, Len(prev_chunk) - 2)[1]
    /\ chunk \in GoodFrames
    /\ off = Len(chunk)
    /\ result # {}
    /\ ~diag

(***************************************************************************)
(* C20: a frame that declares length 0 goes from ReadingLength2 straight   *)
(* to ReadingChecksum1, never through ReadingPayload, so it takes 8 bytes: *)
(* the next two are its checksum bytes, compared with the checksum of its  *)
(* four header bytes (class, id, length), and no byte of it yields a       *)
(* record, whatever its class/id.                                          *)
(***************************************************************************)
\* The decoder is inside a frame whose two length bytes, both 0, it has read.
InZeroLengthFrame ==
    Len(frame) >= 6 /\ frame[1] = UBX_SYNC_CHAR_1 /\ DeclaredLength(frame) = 0

C20_ZeroLengthFrameSkipsPayload ==
    InZeroLengthFrame =>
        /\ Len(frame) <= 8
        /\ result = {}
        /\ Len(frame) = 6 =>
              /\ state = "ReadingChecksum1"
              /\ <<calculated_checksum_a, calculated_checksum_b>>
                     = ubx_checksum(SubSeq(frame, 3, 6))
        /\ Len(frame) = 7 =>
              /\ state = "ReadingChecksum2"
              /\ <<calculated_checksum_a, calculated_checksum_b>>
                     = ubx_checksum(SubSeq(frame, 3, 6))
        /\ Len(frame) = 8 =>
              /\ state = "WaitingForSync1"
              /\ diag <=> (<<frame[7], frame[8]>> # ubx_checksum(SubSeq(frame, 3, 6)))

C20_Witness ==
    /\ InZeroLengthFrame
    /\ Len(frame) = 8
    /\ Recognized(frame)
    /\ frame = chunk
    /\ ~diag
    /\ result = {}

(***************************************************************************)
(* C21: every payload write uses an index in 0..255 that is below the      *)
(* declared length (the byte goes to that index and the index moves on by  *)
(* one), no call ends in an out-of-bounds access; a frame that declares    *)
(* exactly 256 bytes is accepted, and when its 256th payload byte is       *)
(* written the buffer holds its payload at indices 0..255 and the decoder  *)
(* is in ReadingChecksum1.                                                 *)
(***************************************************************************)
C21_PayloadWritesInBounds ==
    [][ /\ state' # "Panicked"
        /\ (state = "ReadingPayload" /\ off' = off + 1) =>
              /\ payload_index \in 0..255
              /\ payload_index < message.length
              /\ message' = [message EXCEPT !.payload[payload_index] = NextByte]
              /\ payload_index' = payload_index + 1
              /\ state' = (IF payload_index' = message.length
                           THEN "ReadingChecksum1" ELSE "ReadingPayload")
        /\ (state = "ReadingLength2" /\ off' = off + 1 /\ LengthWithHighByte = 256) =>
              (state' = "ReadingPayload" /\ payload_index' = 0)
        /\ (state = "ReadingPayload" /\ off' = off + 1 /\ message.length = 256
                /\ payload_index = 255) =>
              /\ state' = "ReadingChecksum1"
              /\ \A i \in 0..255 : message'.payload[i] = PayloadByte(frame', i)
      ]_vars

C21_Witness ==
    /\ state = "ReadingChecksum1"
    /\ message.length = 256
    /\ payload_index = 256
    /\ Len(frame) = 262
    /\ message.payload[255] = frame[262]

(***************************************************************************)
(* SpecCoords: one well-formed recognized frame whose longitude and        *)
(* latitude fields (payload bytes 24..27 and 28..31) take values that tell *)
(* the byte order and the sign apart.                                      *)
(***************************************************************************)
\* Four bytes, first byte on the wire first: 0, 1, 256, 0x12345678, the largest,
\* the smallest, -1, and -0x12345678.
CoordBytes ==
    { <<0, 0, 0, 0>>, <<1, 0, 0, 0>>, <<0, 1, 0, 0>>, <<120, 86, 52, 18>>,
      <<255, 255, 255, 127>>, <<0, 0, 0, 128>>, <<255, 255, 255, 255>>,
      <<136, 169, 203, 237>> }

CoordPayload(lon, lat) ==
    [i \in 1..NAV_PVT_MIN_LEN |->
        IF i - 1 \in 24..27 THEN lon[i - 24]
        ELSE IF i - 1 \in 28..31 THEN lat[i - 28]
        ELSE NavPvtPayload(NAV_PVT_MIN_LEN, 0, 3, 1)[i]]

CoordFrames ==
    { UbxFrame(UBX_CLASS_NAV, UBX_NAV_PVT, NAV_PVT_MIN_LEN, CoordPayload(lon, lat), 0, 0) :
        lon \in CoordBytes, lat \in CoordBytes }

TransmitCoords ==
    /\ sent = 0
    /\ \E c \in CoordFrames : Put(c)

NextCoords == TransmitCoords \/ ParseByte

SpecCoords == Init /\ [][NextCoords]_vars

(***************************************************************************)
(* C22: in a decoded record longitude is the signed 32-bit little-endian   *)
(* value of payload bytes 24..27 and latitude that of payload bytes        *)
(* 28..31: the first byte is the least significant, and a value whose last *)
(* byte has its top bit set is the negative two's-complement number.       *)
(***************************************************************************)
\* The signed value of four bytes, least significant first: the unsigned value of
\* the low 31 bits, less 2^31 if the top bit is set.
SignedLE(c, o) ==
    LET b == [k \in 0..3 |-> PayloadByte(c, o + k)]
        low31 == b[0] + 256 * b[1] + 65536 * b[2] + 16777216 * (b[3] % 128)
    IN  IF b[3] >= 128 THEN low31 - 2147483647 - 1 ELSE low31

C22_LongitudeLatitudeSignedLittleEndian ==
    \A r \in result :
        /\ r.longitude = SignedLE(frame, 24)
        /\ r.latitude = SignedLE(frame, 28)
        /\ (r.longitude < 0) <=> (PayloadByte(frame, 27) >= 128)
        /\ (r.latitude < 0) <=> (PayloadByte(frame, 31) >= 128)
        /\ (PayloadByte(frame, 24) = 120 /\ PayloadByte(frame, 27) = 18) =>
              r.longitude = 305419896
        /\ (PayloadByte(frame, 28) = 136 /\ PayloadByte(frame, 31) = 237) =>
              r.latitude = -305419896

C22_Witness ==
    /\ sent = 1
    /\ off = Len(chunk)
    /\ \E r \in result : r.longitude = 256 /\ r.latitude = -2147483647 - 1

(***************************************************************************)
(* SpecMain: main from the start of the session.  It writes the bytes of   *)
(* ubx_cfg_nmea_off, then those of ubx_cfg_pvt (nb::block! waits until the *)
(* UART takes the byte), constructs the decoder and enters the loop.       *)
(* Frames may arrive on the line at any time; rx.read() is called in the   *)
(* loop only.                                                              *)
(***************************************************************************)
InitMain ==
    /\ state = "WaitingForSync1"
    /\ message = UbxMessage_new
    /\ payload_index = 0
    /\ calculated_checksum_a = 0
    /\ calculated_checksum_b = 0
    /\ result = {}
    /\ diag = FALSE
    /\ chunk = <<>>
    /\ off = 0
    /\ sent = 0
    /\ prev_chunk = <<>>
    /\ frame = <<>>
    /\ sync_seen = FALSE
    /\ b5_run = 0
    /\ pc = <<"ubx_cfg_nmea_off", 0>>
    /\ uart_tx = <<>>

\* A first loop that leaves out the last byte of its array.
SendPortConfig_one_byte_short ==
    /\ pc[1] = "ubx_cfg_nmea_off"
    /\ uart_tx' = Append(uart_tx, ubx_cfg_nmea_off[pc[2] + 1])
    /\ pc' = IF pc[2] + 2 >= Len(ubx_cfg_nmea_off)
             THEN <<"ubx_cfg_pvt", 0>> ELSE <<pc[1], pc[2] + 1>>
    /\ UNCHANGED <<parser_vars, result, diag, chunk, off, sent, prev_chunk, frame,
                   sync_seen, b5_run>>

\* One iteration of "for &byte in &ubx_cfg_nmea_off".
SendPortConfig ==
    /\ pc[1] = "ubx_cfg_nmea_off"
    /\ uart_tx' = Append(uart_tx, ubx_cfg_nmea_off[pc[2] + 1])
    /\ pc' = IF pc[2] + 1 = Len(ubx_cfg_nmea_off)
             THEN <<"ubx_cfg_pvt", 0>> ELSE <<pc[1], pc[2] + 1>>
    /\ UNCHANGED <<parser_vars, result, diag, chunk, off, sent, prev_chunk, frame,
                   sync_seen, b5_run>>

\* One iteration of "for &byte in &ubx_cfg_pvt"; after the last, UbxParser::new()
\* and the loop.
SendRate ==
    /\ pc[1] = "ubx_cfg_pvt"
    /\ uart_tx' = Append(uart_tx, ubx_cfg_pvt[pc[2] + 1])
    /\ pc' = IF pc[2] + 1 = Len(ubx_cfg_pvt)
             THEN <<"loop", 0>> ELSE <<pc[1], pc[2] + 1>>
    /\ UNCHANGED <<parser_vars, result, diag, chunk, off, sent, prev_chunk, frame,
                   sync_seen, b5_run>>

TransmitMain ==
    /\ sent < MaxChunks
    /\ \E c \in GoodFrames : Put(c)

NextMain == SendPortConfig \/ SendRate \/ TransmitMain \/ ParseByte

SpecMain == InitMain /\ [][NextMain]_vars

(***************************************************************************)
(* C23: main writes the 28 bytes of the port-configuration frame in order, *)
(* then the 11 bytes of the message-rate frame in order, each once; no     *)
(* byte is given to parse_byte before both are written; and from then on   *)
(* the bytes rx.read() delivers are given to parse_byte once each, in the  *)
(* order of arrival.                                                       *)
(***************************************************************************)
BothCommands == get_port_config_ubx_only \o get_enable_nav_pvt

C23_CommandsSentThenEveryByteParsed ==
    /\ Len(uart_tx) <= Len(BothCommands)
    /\ uart_tx = SubSeq(BothCommands, 1, Len(uart_tx))
    /\ pc[1] = "ubx_cfg_nmea_off" => Len(uart_tx) = pc[2] /\ pc[2] < 28
    /\ pc[1] = "ubx_cfg_pvt" => Len(uart_tx) = 28 + pc[2] /\ pc[2] < 11
    /\ pc[1] = "loop" => uart_tx = BothCommands
    /\ pc[1] # "loop" =>
          /\ off = 0
          /\ frame = <<>>
          /\ <<state, message, result>> = <<"WaitingForSync1", UbxMessage_new, {}>>
    /\ (sent >= 1 /\ off >= 1) =>
          /\ frame = SubSeq(chunk, 1, off)
          /\ (result # {}) <=> (off = Len(chunk))
          /\ off = Len(chunk) => result = {RecordAlone(chunk)}

C23_Witness ==
    /\ pc[1] = "loop"
    /\ Len(uart_tx) = 39
    /\ sent = 2
    /\ chunk # prev_chunk
    /\ off = Len(chunk)
    /\ frame = chunk
    /\ result # {}

(***************************************************************************)
(* C24: what parse_byte returns is a function of the bytes consumed since  *)
(* the decoder was last in WaitingForSync1, and of nothing else: so two    *)
(* histories that each leave the decoder in WaitingForSync1 give the same  *)
(* outputs for the same bytes that follow, although reset() leaves the     *)
(* last frame's class, id, length and payload in the buffer.  OutputOf and *)
(* DiagnosticOf are that function: they read the bytes and no variable of  *)
(* the decoder.                                                            *)
(***************************************************************************)
OutputOf(bytes) ==
    IF /\ HasFrameShape(bytes)
       /\ Recognized(bytes)
       /\ DeclaredLength(bytes) >= 84
       /\ DeclaredLength(bytes) <= 256
       /\ ChecksumMatches(bytes)
    THEN {RecordAlone(bytes)}
    ELSE {}

DiagnosticOf(bytes) ==
    HasFrameShape(bytes) /\ DeclaredLength(bytes) <= 256 /\ ~ChecksumMatches(bytes)

\* The state is a function of those bytes too, so the same holds of every later byte.
StateOf(bytes) ==
    LET n == Len(bytes)
    IN  IF n = 0 \/ bytes[1] # UBX_SYNC_CHAR_1 THEN "WaitingForSync1"
        ELSE IF n = 1 THEN "WaitingForSync2"
        ELSE IF bytes[2] # UBX_SYNC_CHAR_2 THEN "WaitingForSync1"
        ELSE IF n = 2 THEN "ReadingClass"
        ELSE IF n = 3 THEN "ReadingId"
        ELSE IF n = 4 THEN "ReadingLength1"
        ELSE IF n = 5 THEN "ReadingLength2"
        ELSE IF DeclaredLength(bytes) > 256 THEN "WaitingForSync1"
        ELSE IF n < 6 + DeclaredLength(bytes) THEN "ReadingPayload"
        ELSE IF n = 6 + DeclaredLength(bytes) THEN "ReadingChecksum1"
        ELSE IF n = 7 + DeclaredLength(bytes) THEN "ReadingChecksum2"
        ELSE "WaitingForSync1"

C24_OutputDependsOnFrameBytesAlone ==
    /\ result = OutputOf(frame)
    /\ diag = DiagnosticOf(frame)
    /\ state = StateOf(frame)

C24_Witness ==
    /\ sent = 2
    /\ WellFormed(prev_chunk)
    /\ WellFormed(chunk)
    /\ DeclaredLength(prev_chunk) > DeclaredLength(chunk)
    /\ off = Len(chunk)
    /\ result = OutputOf(chunk)
    /\ result # {}
    /\ message.payload[DeclaredLength(chunk)] = PayloadByte(prev_chunk, DeclaredLength(chunk))
    /\ message.payload[DeclaredLength(chunk)] # 0

(***************************************************************************)
(* SpecWedge: the line breaks off inside a frame (after any of its first   *)
(* bytes, in its middle, before or after either checksum byte), then       *)
(* carries 263 bytes that are not 0xB5, then a well-formed recognized      *)
(* frame.                                                                  *)
(***************************************************************************)
\* The longest a frame the decoder follows can be, less the first sync byte.
MaxResyncBytes == 1 + 4 + PAYLOAD_CAPACITY + 2

WedgeFrames ==
    { NavPvtFrame(NAV_PVT_MIN_LEN, 0, 3, 1),
      UbxFrame(UBX_NAV_PVT, UBX_CLASS_NAV, PAYLOAD_CAPACITY,
               NavPvtPayload(PAYLOAD_CAPACITY, 0, 3, 1), 0, 0),
      UbxFrame(10, 4, 0, <<>>, 0, 0),
      OversizePlain }

\* Where the line breaks off: how many bytes of the frame arrive.
WedgeCuts(c) ==
    { k \in (1..8) \cup {Len(c) \div 2, Len(c) - 2, Len(c) - 1, Len(c)} : k <= Len(c) }

Truncated == UNION { { SubSeq(c, 1, k) : k \in WedgeCuts(c) } : c \in WedgeFrames }

\* 263 bytes other than 0xB5: the rest of the header of a frame that declares 256
\* bytes, from its h-th byte on, and then zeros; or 0xFF throughout.
HeaderRest == <<UBX_SYNC_CHAR_2, UBX_CLASS_NAV, UBX_NAV_PVT, 0, 1>>

Fillers ==
    { [i \in 1..MaxResyncBytes |-> IF i + h <= 5 THEN HeaderRest[i + h] ELSE 0] : h \in 0..5 }
        \cup { [i \in 1..MaxResyncBytes |-> 255] }

TransmitTruncated ==
    /\ sent = 0
    /\ \E c \in Truncated : Put(c)

TransmitFiller ==
    /\ sent = 1
    /\ \E c \in Fillers : Put(c)

TransmitAfterFiller ==
    /\ sent = 2
    /\ \E c \in GoodFrames : Put(c)

NextWedge == TransmitTruncated \/ TransmitFiller \/ TransmitAfterFiller \/ ParseByte

SpecWedge == Init /\ [][NextWedge]_vars

(***************************************************************************)
(* C25: no input wedges the decoder: from any decoder state, once 263      *)
(* further bytes, none of them 0xB5, are consumed the decoder is in        *)
(* WaitingForSync1; once it is there it stays there for as long as such    *)
(* bytes go on; and a well-formed recognized frame fed next yields its     *)
(* record, on its last byte.                                               *)
(***************************************************************************)
C25_NoInputWedgesDecoder ==
    [][ /\ state' \in States
        /\ (sent = 2 /\ off' = Len(chunk)) => state' = "WaitingForSync1"
        /\ (sent = 2 /\ off' = off + 1 /\ state = "WaitingForSync1") =>
              state' = "WaitingForSync1"
        /\ (sent' = 3 /\ off' >= 1) =>
              /\ (result' # {}) <=> (off' = Len(chunk'))
              /\ off' = Len(chunk') => result' = {RecordAlone(chunk')}
      ]_vars

\* A decoder that needed all 263 bytes, and then decoded the frame that followed.
C25_Witness ==
    /\ sent = 3
    /\ off = Len(chunk)
    /\ result = {RecordAlone(chunk)}
    /\ prev_chunk[1] = UBX_SYNC_CHAR_2
    /\ message.payload[PAYLOAD_CAPACITY - 1] = 0
    /\ message.payload[NAV_PVT_MIN_LEN - 1] # 0

(***************************************************************************)
(* C26: whenever the decoder is in ReadingPayload between calls, the       *)
(* declared length is in 1..256 and the payload index is below it; so a    *)
(* byte consumed in ReadingPayload is always written, and the else-branch  *)
(* that resets instead of writing is never taken.                          *)
(***************************************************************************)
C26_ReadingPayloadIndexBelowLength ==
    /\ state = "ReadingPayload" =>
          /\ 1 <= message.length
          /\ message.length <= 256
          /\ payload_index < message.length
          /\ payload_index = Len(frame) - 6
    /\ (state = "WaitingForSync1" /\ Len(frame) > 6) => FrameCompleted

C26_Witness ==
    /\ state = "ReadingPayload"
    /\ message.length = 256
    /\ payload_index = 255
    /\ sent = 2

(***************************************************************************)
(* C27: parse_byte returns Some only for a byte consumed in                *)
(* ReadingChecksum2, and two bytes that each yield a record are at least   *)
(* 92 positions apart: the byte that yields a record is the last of at     *)
(* least 92 bytes consumed since the decoder was last in WaitingForSync1,  *)
(* and the byte after one that yields a record starts that count anew.     *)
(***************************************************************************)
C27_RecordsOnlyFromChecksum2AndFarApart ==
    [][ off' = off + 1 =>
            /\ result' # {} =>
                  /\ state = "ReadingChecksum2"
                  /\ Len(frame') >= 92
                  /\ Len(frame') = Len(frame) + 1
            /\ result # {} =>
                  /\ state = "WaitingForSync1"
                  /\ Len(frame') = 1
                  /\ result' = {}
      ]_vars

C27_Witness ==
    /\ sent = 2
    /\ off = Len(chunk)
    /\ result # {}
    /\ Len(frame) = 92
    /\ prev_chunk = chunk

(***************************************************************************)
(* C28: between calls, whenever the decoder is in WaitingForSync1 or       *)
(* WaitingForSync2, both checksum accumulators and the payload index are   *)
(* 0.                                                                      *)
(***************************************************************************)
C28_SyncStatesHaveZeroAccumulatorsAndIndex ==
    state \in {"WaitingForSync1", "WaitingForSync2"} =>
        /\ calculated_checksum_a = 0
        /\ calculated_checksum_b = 0
        /\ payload_index = 0

C28_Witness ==
    /\ state = "WaitingForSync2"
    /\ sent = 2
    /\ message.length = OVERSIZE_LEN
    /\ message.payload[NAV_PVT_MIN_LEN - 1] # 0
    /\ calculated_checksum_a = 0
    /\ payload_index = 0

=============================================================================
